---- MODULE Spec2Model ----
(***************************************************************************)
(* Model of the per-method radix tree of the hapi router: Engine.addRoute, *)
(* node.addRoute (one step per iteration of its walk loop), node.getValue  *)
(* and the dispatch lookup of Engine.handleHTTPRequest.                    *)
(*                                                                         *)
(* A string is a sequence of bytes (integers).  A node is a record that    *)
(* owns its children as a sequence of node records; a pointer to a node is *)
(* the sequence of child positions leading to it from the root of a tree.  *)
(* Priorities are uint32 in the source; they stay far below 2^32 here and  *)
(* are never decremented below 1 (a node is split only after its priority *)
(* was incremented), so no arithmetic wraps.                               *)
(*                                                                         *)
(* Spec        one tree: every path of up to MaxLen bytes under one method *)
(* SpecEngine  the method table: a few paths under two methods             *)
(* SpecServe   SpecEngine, then Engine.Run and two goroutines that look up *)
(*             paths concurrently, one getValue iteration per step         *)
(*                                                                         *)
(* A panic ends the call; the caller may recover and call again.           *)
(***************************************************************************)
EXTENDS Integers, Sequences, FiniteSets, TLC

\* '/' as compared in node.addRoute and Engine.addRoute
Slash == 47

\* the bytes paths are built from: '/' and 'a'
Bytes == {47, 97}

\* "/α" and "/β" of Test_node_addRoute: α is CE B1, β is CE B2
Alpha == <<47, 206, 177>>

Beta == <<47, 206, 178>>

\* longest path handed to addRoute or looked up
MaxLen == 3

\* number of addRoute calls that pass the argument checks
MaxCalls == 3

\* iterations of the walk loop of one addRoute call that the model follows
MaxIter == 5

Methods == {"GET", "POST"}

Strs(k) == UNION {[1..m -> Bytes] : m \in 0..k}

\* paths handed to addRoute that begin with '/'
RoutePaths == {p \in Strs(MaxLen) : Len(p) > 0 /\ p[1] = Slash} \cup {Alpha, Beta}

\* paths that do not: the empty path and "a"
BadPaths == {<<>>, <<97>>}

----------------------------------------------------------------------------
(* HandlersChain: a nil slice, or a slice of handler identities *)

NilChain == [isNil |-> TRUE, fns |-> <<>>]

Chain(fs) == [isNil |-> FALSE, fns |-> fs]

\* fakeHandler of the tests: a chain of one handler that identifies val
fakeHandler(val) == Chain(<<val>>)

\* new(node)
NewNode == [path |-> <<>>, indices |-> <<>>, priority |-> 0, children |-> <<>>,
            handlers |-> NilChain, fullPath |-> <<>>]

VARIABLES
    trees,      \* Engine.trees: sequence of [method, root]
    pc,         \* "idle", or "walk" while a call is inside the walk loop
    tree,       \* index in trees of the tree the running call works on
    n,          \* node.addRoute's n: position of the current node in that tree
    path,       \* node.addRoute's path: the remaining suffix
    fullPath,   \* node.addRoute's fullPath
    handlers,   \* node.addRoute's handlers
    iter,       \* iterations of the walk loop done by the running call
    result,     \* the panic the last call ended in, NoPanic if none
    registered, \* the calls that returned: set of [method, path, handlers]
    serving,    \* Engine.Run was called: requests are dispatched
    req,        \* per serving goroutine, the request handleHTTPRequest works on
    rejected,   \* a call has ended in the panic for a path that has handlers
    ctx,        \* the Context of a request whose handlers call it: [handlers, index]
    cpc,        \* where that request is: "idle", "loop" (in Next), "body" (in a handler)
    stack,      \* the handlers that were called and have not returned: [h, at]
    ran,        \* the indices of the handlers called for that request, in order
    aborted,    \* the indices of the handlers that called Abort, in order
    pool,       \* Engine.pool: the Contexts that were put and not taken again
    contexts,   \* the Contexts allocated so far; a *Context is a position in here
    sv,         \* per serving goroutine, the ServeHTTP call it is in: [pc, c, rid, ...]
    served,     \* the ServeHTTP calls made so far
    groups,     \* the RouterGroups made so far: [Handlers, parent]
    arrays,     \* the backing arrays of the handler slices allocated so far
    routes,     \* the chains that handle gave to Engine.addRoute: [group, handler, chain]
    request,    \* the http.Request of a handler that calls RequestBody: [Body]
    data,       \* Context.data of that request
    reads,      \* the reads of the underlying body made by RequestBody: [ok]
    returned    \* what the calls of RequestBody returned, in order: [body, err]

\* the variables of registration and lookup
engineVars == <<trees, pc, tree, n, path, fullPath, handlers, iter, result, registered, serving, req,
                rejected>>

\* the variables of a running handler chain
ctxVars == <<ctx, cpc, stack, ran, aborted>>

\* the variables of ServeHTTP and the pool of Contexts
poolVars == <<pool, contexts, sv, served>>

\* the variables of the router groups
groupVars == <<groups, arrays, routes>>

\* the variables of a request whose body is read
bodyVars == <<request, data, reads, returned>>

restVars == <<poolVars, groupVars, bodyVars>>

vars == <<trees, pc, tree, n, path, fullPath, handlers, iter, result, registered, serving, req,
          rejected,
          ctx, cpc, stack, ran, aborted,
          pool, contexts, sv, served,
          groups, arrays, routes,
          request, data, reads, returned>>

----------------------------------------------------------------------------
(* pointers into a tree *)

RECURSIVE nodeAt(_, _)
nodeAt(nd, pos) ==
    IF pos = <<>> THEN nd ELSE nodeAt(nd.children[Head(pos)], Tail(pos))

RECURSIVE setAt(_, _, _)
setAt(nd, pos, new) ==
    IF pos = <<>> THEN new
    ELSE [nd EXCEPT !.children[Head(pos)] = setAt(@, Tail(pos), new)]

----------------------------------------------------------------------------
\* the first tree whatever its method
getAny(ts, method) == IF Len(ts) = 0 THEN 0 ELSE 1

(* methodTrees.get: index of the first tree of the method, 0 when there is none *)

\* a scan that finds no tree
getNone(ts, method) == 0

get(ts, method) ==
    LET hit == {k \in 1..Len(ts) : ts[k].method = method}
    IN  IF hit = {} THEN 0 ELSE CHOOSE k \in hit : \A j \in hit : k <= j

min(a, b) == IF a <= b THEN a ELSE b

RECURSIVE lcpFrom(_, _, _, _)
lcpFrom(a, b, i, max) ==
    IF i < max /\ a[i + 1] = b[i + 1] THEN lcpFrom(a, b, i + 1, max) ELSE i

longestCommonPrefix(a, b) == lcpFrom(a, b, 0, min(Len(a), Len(b)))

----------------------------------------------------------------------------
(* node.incrementChildPrio; pos and the result are 1-based positions *)

swap(cs, a, b) == [cs EXCEPT ![a] = cs[b], ![b] = cs[a]]

\* a child that also passes the siblings of its own priority
RECURSIVE moveToFrontPastEqual(_, _, _)
moveToFrontPastEqual(cs, newPos, prio) ==
    IF newPos > 1 /\ cs[newPos - 1].priority <= prio
    THEN moveToFrontPastEqual(swap(cs, newPos - 1, newPos), newPos - 1, prio)
    ELSE [cs |-> cs, newPos |-> newPos]

\* a child that stays where it is whatever its priority
moveToFrontStays(cs, newPos, prio) == [cs |-> cs, newPos |-> newPos]

RECURSIVE moveToFront(_, _, _)
moveToFront(cs, newPos, prio) ==
    IF newPos > 1 /\ cs[newPos - 1].priority < prio
    THEN moveToFront(swap(cs, newPos - 1, newPos), newPos - 1, prio)
    ELSE [cs |-> cs, newPos |-> newPos]

\* a reordering of the children that leaves the indices where they were
incrementChildPrioKeepsIndices(nd, pos) ==
    LET cs0  == [nd.children EXCEPT ![pos].priority = @ + 1]
        mv   == moveToFront(cs0, pos, cs0[pos].priority)
    IN  [node |-> [nd EXCEPT !.children = mv.cs], newPos |-> mv.newPos]

incrementChildPrio(nd, pos) ==
    LET cs0  == [nd.children EXCEPT ![pos].priority = @ + 1]
        prio == cs0[pos].priority
        mv   == moveToFront(cs0, pos, prio)
        np   == mv.newPos
        ix   == nd.indices
        ix1  == IF np # pos
                THEN SubSeq(ix, 1, np - 1) \o <<ix[pos]>> \o
                     SubSeq(ix, np, pos - 1) \o SubSeq(ix, pos + 1, Len(ix))
                ELSE ix
    IN  [node |-> [nd EXCEPT !.children = mv.cs, !.indices = ix1], newPos |-> np]

----------------------------------------------------------------------------
(* node.insertChild *)

\* a node that is given the path and not the handlers
insertChildNoHandlers(nd, p, fp, h) ==
    [nd EXCEPT !.path = p, !.fullPath = fp]

insertChild(nd, p, fp, h) ==
    [nd EXCEPT !.path = p, !.handlers = h, !.fullPath = fp]

\* a split that leaves the handlers behind instead of moving them to the child
splitEdgeLosesHandlers(nd, i, p) ==
    LET child == [path     |-> SubSeq(nd.path, i + 1, Len(nd.path)),
                  indices  |-> nd.indices,
                  children |-> nd.children,
                  handlers |-> NilChain,
                  priority |-> nd.priority - 1,
                  fullPath |-> nd.fullPath]
    IN  [nd EXCEPT !.children = <<child>>,
                   !.indices  = <<nd.path[i + 1]>>,
                   !.path     = SubSeq(p, 1, i),
                   !.handlers = NilChain]

\* a split that does not clear the handlers of the shortened node
splitEdgeKeepsHandlers(nd, i, p) ==
    LET child == [path     |-> SubSeq(nd.path, i + 1, Len(nd.path)),
                  indices  |-> nd.indices,
                  children |-> nd.children,
                  handlers |-> nd.handlers,
                  priority |-> nd.priority - 1,
                  fullPath |-> nd.fullPath]
    IN  [nd EXCEPT !.children = <<child>>,
                   !.indices  = <<nd.path[i + 1]>>,
                   !.path     = SubSeq(p, 1, i)]

\* a split whose child does not take over the children of the node
splitEdgeDropsChildren(nd, i, p) ==
    LET child == [path     |-> SubSeq(nd.path, i + 1, Len(nd.path)),
                  indices  |-> <<>>,
                  children |-> <<>>,
                  handlers |-> nd.handlers,
                  priority |-> nd.priority - 1,
                  fullPath |-> nd.fullPath]
    IN  [nd EXCEPT !.children = <<child>>,
                   !.indices  = <<nd.path[i + 1]>>,
                   !.path     = SubSeq(p, 1, i),
                   !.handlers = NilChain]

\* a split whose child keeps the priority of the node
splitEdgeSamePriority(nd, i, p) ==
    LET child == [path     |-> SubSeq(nd.path, i + 1, Len(nd.path)),
                  indices  |-> nd.indices,
                  children |-> nd.children,
                  handlers |-> nd.handlers,
                  priority |-> nd.priority,
                  fullPath |-> nd.fullPath]
    IN  [nd EXCEPT !.children = <<child>>,
                   !.indices  = <<nd.path[i + 1]>>,
                   !.path     = SubSeq(p, 1, i),
                   !.handlers = NilChain]

(* node.addRoute, "Split edge": i is the 0-based length of the common prefix *)
splitEdge(nd, i, p) ==
    LET child == [path     |-> SubSeq(nd.path, i + 1, Len(nd.path)),
                  indices  |-> nd.indices,
                  children |-> nd.children,
                  handlers |-> nd.handlers,
                  priority |-> nd.priority - 1,
                  fullPath |-> nd.fullPath]
    IN  [nd EXCEPT !.children = <<child>>,
                   !.indices  = <<nd.path[i + 1]>>,
                   !.path     = SubSeq(p, 1, i),
                   !.handlers = NilChain]

\* a scan that finds no child
firstIndexNone(ix, c) == 0

(* the scan "for i, max := 0, len(n.indices)": the first position of byte c, 0 if none *)
firstIndex(ix, c) ==
    LET hit == {k \in 1..Len(ix) : ix[k] = c}
    IN  IF hit = {} THEN 0 ELSE CHOOSE k \in hit : \A j \in hit : k <= j

(* node.addRoute, "'/' after param": n moves to the only child, whose priority grows *)
slashAfterParam(nd, rest) ==
    [node |-> [nd EXCEPT !.children[1].priority = @ + 1],
     kind |-> "continue", child |-> 1, path |-> rest]

\* a step into a child that does not count the route
intoChildNoCount(nd, k, rest) ==
    [node |-> nd, kind |-> "continue", child |-> k, path |-> rest]

(* node.addRoute, "Check if a child with the next path byte exists": child at k *)
intoChild(nd, k, rest) ==
    LET r == incrementChildPrio(nd, k)
    IN  [node |-> r.node, kind |-> "continue", child |-> r.newPos, path |-> rest]

(* node.addRoute, the new child for the rest of the path *)
newChild(nd, rest, fp, h) ==
    LET nd2 == [nd EXCEPT !.indices  = Append(@, rest[1]),
                          !.children = Append(@, [NewNode EXCEPT !.fullPath = fp])]
        r   == incrementChildPrio(nd2, Len(nd2.indices))
    IN  [node  |-> [r.node EXCEPT !.children[r.newPos] = insertChild(@, rest, fp, h)],
         kind  |-> "return", child |-> r.newPos, path |-> rest]

\* handlers replaced without the check for a registered route
addHandleOverwrites(nd, p, fp, h) ==
    [node |-> [nd EXCEPT !.handlers = h, !.fullPath = fp],
     kind |-> "return", child |-> 0, path |-> p]

\* a rejected call that takes the handlers off the node
addHandleForgets(nd, p, fp, h) ==
    IF ~nd.handlers.isNil
    THEN [node |-> [nd EXCEPT !.handlers = NilChain], kind |-> "panic", child |-> 0, path |-> p]
    ELSE [node |-> [nd EXCEPT !.handlers = h, !.fullPath = fp],
          kind |-> "return", child |-> 0, path |-> p]

\* handlers stored without the full path of the route
addHandleKeepsFullPath(nd, p, fp, h) ==
    IF ~nd.handlers.isNil
    THEN [node |-> nd, kind |-> "panic", child |-> 0, path |-> p]
    ELSE [node |-> [nd EXCEPT !.handlers = h],
          kind |-> "return", child |-> 0, path |-> p]

(* node.addRoute, "Otherwise add handle to current node" *)
addHandle(nd, p, fp, h) ==
    IF ~nd.handlers.isNil
    THEN [node |-> nd, kind |-> "panic", child |-> 0, path |-> p]
    ELSE [node |-> [nd EXCEPT !.handlers = h, !.fullPath = fp],
          kind |-> "return", child |-> 0, path |-> p]

(* one iteration of the walk loop of node.addRoute on the current node nd:  *)
(* the node as the iteration leaves it, how the iteration ends ("continue" *)
(* walk, "return", "panic"), the child n moves to and the remaining path   *)
walkBody(nd, p, fp, h) ==
    LET i   == longestCommonPrefix(p, nd.path)
        nd1 == IF i < Len(nd.path) THEN splitEdge(nd, i, p) ELSE nd
    IN  IF i < Len(p)
        THEN LET rest == SubSeq(p, i + 1, Len(p))
                 k    == firstIndex(nd1.indices, rest[1])
             IN  IF rest[1] = Slash /\ Len(nd1.children) = 1
                 THEN slashAfterParam(nd1, rest)
                 ELSE IF k # 0
                 THEN intoChild(nd1, k, rest)
                 ELSE newChild(nd1, rest, fp, h)
        ELSE addHandle(nd1, p, fp, h)

----------------------------------------------------------------------------
\* a lookup that reorders the children it passes as registration does
childAtMoveToFront(nd, i, rest) ==
    LET r == incrementChildPrio(nd, i)
    IN  [node |-> r.node, kind |-> "continue", child |-> r.newPos, path |-> rest,
         handlers |-> NilChain]

(* node.getValue, "n = n.children[i]; continue walk": no field of the node is assigned *)
childAt(nd, i, rest) ==
    [node |-> nd, kind |-> "continue", child |-> i, path |-> rest, handlers |-> NilChain]

\* the length test off by one
hasPrefixOrEqual(p, prefix) ==
    Len(p) >= Len(prefix) /\ SubSeq(p, 1, Len(prefix)) = prefix

(* node.getValue, "len(path) > len(prefix)" and "path[:len(prefix)] == prefix" *)
hasPrefix(p, prefix) ==
    Len(p) > Len(prefix) /\ SubSeq(p, 1, Len(prefix)) = prefix

(* one iteration of the walk loop of node.getValue on the node nd: the node as the *)
(* iteration leaves it, then "continue" with the child n moves to and the remaining *)
(* path, "return" with the handlers, or "panic" when it indexes the path or the     *)
(* children out of range                                                            *)
getValueBody(nd, p) ==
    LET prefix == nd.path
        rest   == SubSeq(p, Len(prefix) + 1, Len(p))
        i      == firstIndex(nd.indices, rest[1])
        end(kind, q, h) == [node |-> nd, kind |-> kind, child |-> 0, path |-> q, handlers |-> h]
    IN  IF hasPrefix(p, prefix)
        THEN IF rest = <<>> THEN end("panic", rest, NilChain)
             ELSE IF i = 0 THEN end("return", rest, NilChain)
             ELSE IF i > Len(nd.children) THEN end("panic", rest, NilChain)
             ELSE childAt(nd, i, rest)
        ELSE IF p = prefix THEN end("return", p, nd.handlers) ELSE end("return", p, NilChain)

(* the walk loop of node.getValue from the node nd: its last iteration *)
RECURSIVE getValueWalk(_, _)
getValueWalk(nd, p) ==
    LET r == getValueBody(nd, p)
    IN  IF r.kind = "continue" THEN getValueWalk(nd.children[r.child], r.path) ELSE r

(* node.getValue: the handlers it returns *)
getValue(nd, p) == getValueWalk(nd, p).handlers

(* the lookup of Engine.handleHTTPRequest: the chain it runs, nil when it serves 404 *)
lookup(ts, method, rPath) ==
    LET k == get(ts, method)
    IN  IF k = 0 THEN NilChain ELSE getValue(ts[k].root, rPath)

----------------------------------------------------------------------------
(* node.addRoute before its walk loop: the priority of the root grows, and an empty *)
(* tree takes the path as it is                                                     *)
enter(root, p, h) ==
    LET r == [root EXCEPT !.priority = @ + 1]
    IN  IF Len(r.path) = 0 /\ Len(r.children) = 0
        THEN [root |-> insertChild(r, p, p, h), kind |-> "return"]
        ELSE [root |-> r, kind |-> "continue"]

(* the walk loop of node.addRoute run for at most fuel iterations from the node at pos *)
RECURSIVE walk(_, _, _, _, _, _)
walk(root, pos, p, fp, h, fuel) ==
    IF fuel = 0 THEN [root |-> root, kind |-> "continue"]
    ELSE LET r == walkBody(nodeAt(root, pos), p, fp, h)
             root1 == setAt(root, pos, r.node)
         IN  IF r.kind = "continue"
             THEN walk(root1, Append(pos, r.child), r.path, fp, h, fuel - 1)
             ELSE [root |-> root1, kind |-> r.kind]

(* node.addRoute as one call: the tree it leaves and how it ends; "continue" when it *)
(* is still inside the walk loop after MaxIter iterations                            *)
nodeAddRoute(root, p, h) ==
    LET e == enter(root, p, h)
    IN  IF e.kind = "return" THEN e ELSE walk(e.root, <<>>, p, p, h, MaxIter)

----------------------------------------------------------------------------

\* the calls that passed the argument checks: every one increments its root's priority
RECURSIVE sumPriority(_)
sumPriority(ts) ==
    IF ts = <<>> THEN 0 ELSE Head(ts).root.priority + sumPriority(Tail(ts))

Callable == {"idle", "panicked"}

\* the goroutines that serve requests
Goroutines == {1, 2}

\* a Context after reset, before a request: index is -1, handlers nil, no handler has
\* run and serveError has set no status
NoRequest == [state |-> "none", method |-> "", rPath |-> <<>>, tree |-> 0, n |-> <<>>,
              path |-> <<>>, handlers |-> NilChain, index |-> -1, ran |-> <<>>,
              status |-> 0]

NoPanic == ""

\* a goroutine that is in no ServeHTTP call
NoServe == [pc |-> "idle", c |-> 0, rid |-> 0, method |-> "", rPath |-> <<>>,
            panicked |-> FALSE]

\* a nil slice: no backing array
NilSlice == [array |-> 0, len |-> 0, cap |-> 0]

\* the RouterGroup of Engine.New: no handlers, no parent; derived and used record the
\* handlers the group was made with and those its Use calls have added since
NewGroup == [Handlers |-> NilSlice, parent |-> 0, derived |-> <<>>, used |-> <<>>]

\* a nil map
NilMap == [isNil |-> TRUE, body |-> <<>>]

\* a nil io.ReadCloser
NilBody == [isNil |-> TRUE, underlying |-> FALSE, bytes |-> <<>>]

\* no request yet
NoHTTPRequest == [Method |-> "", Body |-> NilBody]

(* Context.reset: no handlers, index -1 *)
NoContext == [handlers |-> NilChain, index |-> -1]

Init ==
    /\ trees = <<>>
    /\ pc = "idle"
    /\ tree = 0
    /\ n = <<>>
    /\ path = <<>>
    /\ fullPath = <<>>
    /\ handlers = NilChain
    /\ iter = 0
    /\ result = NoPanic
    /\ registered = {}
    /\ serving = FALSE
    /\ req = [g \in Goroutines |-> NoRequest]
    /\ ctx = NoContext
    /\ cpc = "idle"
    /\ stack = <<>>
    /\ ran = <<>>
    /\ aborted = <<>>
    /\ rejected = FALSE
    /\ pool = {}
    /\ contexts = <<>>
    /\ sv = [g \in Goroutines |-> NoServe]
    /\ served = 0
    /\ groups = <<NewGroup>>
    /\ arrays = <<>>
    /\ routes = <<>>
    /\ request = NoHTTPRequest
    /\ data = NilMap
    /\ reads = <<>>
    /\ returned = <<>>

\* the call is over and its locals are gone: it returned (pc "idle") or panicked
Finish(ts, to, msg, reg) ==
    /\ trees' = ts
    /\ pc' = to
    /\ tree' = 0
    /\ n' = <<>>
    /\ path' = <<>>
    /\ fullPath' = <<>>
    /\ handlers' = NilChain
    /\ iter' = 0
    /\ result' = msg
    /\ registered' = reg
    /\ rejected' = (rejected \/ msg = "handlers are already registered for path")
    /\ UNCHANGED <<serving, req>>
    /\ UNCHANGED <<ctxVars, restVars>>

\* an assertion that never fires
assert1Off(guard, text) == NoPanic

(* assert1 *)
assert1(guard, text) == IF guard THEN NoPanic ELSE text

(* the argument checks of Engine.addRoute: the panic they end in, if any *)
checkArgs(method, p, h) ==
    IF Len(p) = 0 THEN "index out of range"
    ELSE IF assert1(p[1] = Slash, "path must begin with '/'") # NoPanic
    THEN "path must begin with '/'"
    ELSE IF assert1(method # "", "HTTP method can not be empty") # NoPanic
    THEN "HTTP method can not be empty"
    ELSE assert1(Len(h.fns) > 0, "there must be at least one handler")

(* Engine.addRoute up to the walk loop of node.addRoute *)
addRoute(method, p, h) ==
    /\ pc \in Callable
    /\ IF checkArgs(method, p, h) # NoPanic
       THEN Finish(trees, "panicked", checkArgs(method, p, h), registered)
       ELSE
         /\ sumPriority(trees) < MaxCalls
         /\ LET k0   == get(trees, method)
                ts1  == IF k0 = 0
                        THEN Append(trees, [method |-> method,
                                            root |-> [NewNode EXCEPT !.fullPath = <<Slash>>]])
                        ELSE trees
                k    == IF k0 = 0 THEN Len(ts1) ELSE k0
                e    == enter(ts1[k].root, p, h)
            IN  IF e.kind = "return"
                THEN Finish([ts1 EXCEPT ![k].root = e.root], "idle", NoPanic,
                            registered \cup {[method |-> method, path |-> p, handlers |-> h]})
                ELSE /\ trees' = [ts1 EXCEPT ![k].root = e.root]
                     /\ pc' = "walk"
                     /\ tree' = k
                     /\ n' = <<>>
                     /\ path' = p
                     /\ fullPath' = p
                     /\ handlers' = h
                     /\ iter' = 0
                     /\ result' = NoPanic
                     /\ registered' = registered
                     /\ UNCHANGED <<serving, req>>
                     /\ UNCHANGED <<ctxVars, rejected, restVars>>

\* the chain a call for (method, p) hands in: a handler of its own, another one when
\* the route is registered again
HandlerFor(method, p) ==
    fakeHandler([method |-> method, route |-> p,
                 again |-> \E r \in registered : r.method = method /\ r.path = p])

\* calls with and without a path that begins with '/', a method and handlers
SomeCalls ==
    {"", "GET"} \X (BadPaths \cup {<<Slash>>})
                \X {NilChain, Chain(<<>>), HandlerFor("GET", <<Slash>>)}

\* the calls made on one tree: every path under "GET", and calls with arguments that
\* do not pass the checks
Calls ==
    {<<"GET", p, HandlerFor("GET", p)>> : p \in RoutePaths} \cup SomeCalls

AddRoute ==
    /\ ~serving
    /\ \E c \in Calls : addRoute(c[1], c[2], c[3])

(* one iteration of the walk loop of node.addRoute *)
Walk ==
    /\ pc = "walk"
    /\ iter < MaxIter
    /\ LET root == trees[tree].root
           r    == walkBody(nodeAt(root, n), path, fullPath, handlers)
           ts1  == [trees EXCEPT ![tree].root = setAt(root, n, r.node)]
           m    == trees[tree].method
       IN  CASE r.kind = "continue" ->
                  /\ trees' = ts1
                  /\ n' = Append(n, r.child)
                  /\ path' = r.path
                  /\ iter' = iter + 1
                  /\ UNCHANGED <<pc, tree, fullPath, handlers, result, registered, serving, req>>
                  /\ UNCHANGED <<ctxVars, rejected, restVars>>
             [] r.kind = "return" ->
                  Finish(ts1, "idle", NoPanic,
                         registered \cup {[method |-> m, path |-> fullPath, handlers |-> handlers]})
             [] r.kind = "panic" ->
                  Finish(ts1, "panicked", "handlers are already registered for path", registered)

Next == AddRoute \/ Walk

Spec == Init /\ [][Next]_vars

----------------------------------------------------------------------------
(* the method table: routes under two methods *)

\* "/", "/a", "//", "/aa", "/a/"
EnginePaths == {<<47>>, <<47, 97>>, <<47, 47>>, <<47, 97, 97>>, <<47, 97, 47>>}

EngineCalls ==
    {<<c[1], c[2], HandlerFor(c[1], c[2])>> : c \in Methods \X EnginePaths} \cup SomeCalls

AddRouteEngine ==
    /\ ~serving
    /\ \E c \in EngineCalls : addRoute(c[1], c[2], c[3])

NextEngine == AddRouteEngine \/ Walk

SpecEngine == Init /\ [][NextEngine]_vars

----------------------------------------------------------------------------
(* serving: registration is complete when Engine.Run is called (registration is not *)
(* concurrency-safe), and from then on goroutines dispatch requests concurrently    *)

\* the requests served: a method with a tree or without one, and these paths
ServeMethods == {"GET", "POST", "PUT"}

ServePaths == {<<47>>, <<47, 97>>, <<47, 97, 97>>, <<47, 97, 47>>}

\* routes registered before the server runs
MaxServeCalls == 2

(* Engine.Run *)
Run ==
    /\ pc = "idle"
    /\ ~serving
    /\ sumPriority(trees) <= MaxServeCalls
    /\ serving' = TRUE
    /\ UNCHANGED <<trees, pc, tree, n, path, fullPath, handlers, iter, result, registered, req>>
    /\ UNCHANGED <<ctxVars, rejected, restVars>>

(* the conversion int8(i) *)
int8(i) == ((i + 128) % 256) - 128

(* Context.Next, "c.index < int8(len(c.handlers))" *)
pending(cx) == cx.index < int8(Len(cx.handlers.fns))

(* Context.Next, the loop: the handlers at index and after it are called one after the *)
(* other; these handlers return without a call on the Context                          *)
RECURSIVE runPending(_)
runPending(cx) ==
    IF pending(cx)
    THEN runPending([cx EXCEPT !.ran = Append(@, cx.handlers.fns[cx.index + 1]),
                               !.index = int8(@ + 1)])
    ELSE cx

(* Context.Next *)
ContextNext(cx) == runPending([cx EXCEPT !.index = int8(@ + 1)])

StatusNotFound == 404

(* serveError, "c.writermem.status = code" *)
serveError(cx, code) == [cx EXCEPT !.status = code]

\* a dispatch that does not test the handlers for nil
handledUnchecked(cx, h) == [ContextNext([cx EXCEPT !.handlers = h]) EXCEPT !.state = "done"]

(* Engine.handleHTTPRequest after getValue: the chain is run if it is not nil, and *)
(* serveError is called with 404 otherwise                                         *)
handled(cx, h) ==
    IF ~h.isNil
    THEN [ContextNext([cx EXCEPT !.handlers = h]) EXCEPT !.state = "done"]
    ELSE [serveError(cx, StatusNotFound) EXCEPT !.state = "done"]

(* Engine.handleHTTPRequest up to the call of getValue: the root of the method's tree, *)
(* and serveError with 404 when the method has none                                    *)
Request(g, method, rPath) ==
    /\ serving
    /\ req[g].state # "walk"
    /\ LET k  == get(trees, method)
           cx == [NoRequest EXCEPT !.state = "walk", !.method = method, !.rPath = rPath,
                                   !.tree = k, !.path = rPath]
       IN  req' = [req EXCEPT ![g] = IF k = 0 THEN handled(cx, NilChain) ELSE cx]
    /\ UNCHANGED <<trees, pc, tree, n, path, fullPath, handlers, iter, result, registered, serving>>
    /\ UNCHANGED <<ctxVars, rejected, restVars>>

(* one iteration of the walk loop of node.getValue run by goroutine g *)
GetValue(g) ==
    /\ req[g].state = "walk"
    /\ LET root == trees[req[g].tree].root
           r    == getValueBody(nodeAt(root, req[g].n), req[g].path)
       IN  /\ trees' = [trees EXCEPT ![req[g].tree].root = setAt(root, req[g].n, r.node)]
           /\ req' = [req EXCEPT ![g] =
                         IF r.kind = "continue"
                         THEN [@ EXCEPT !.n = Append(@, r.child), !.path = r.path]
                         ELSE IF r.kind = "panic" THEN [@ EXCEPT !.state = "panic"]
                         ELSE handled(@, r.handlers)]
    /\ UNCHANGED <<pc, tree, n, path, fullPath, handlers, iter, result, registered, serving>>
    /\ UNCHANGED <<ctxVars, rejected, restVars>>

Serve ==
    \E g \in Goroutines :
        \/ \E method \in ServeMethods, rPath \in ServePaths : Request(g, method, rPath)
        \/ GetValue(g)

NextServe == AddRouteEngine \/ Walk \/ Run \/ Serve

SpecServe == Init /\ [][NextServe]_vars

----------------------------------------------------------------------------
(* a request whose handlers call the Context: the chain that combineHandlers made of *)
(* the middleware of the group and the handler of the route is run by Context.Next   *)

abortIndex == 63

\* the handlers of a chain, most of them
MaxChain == 128

\* what a handler does before it returns: the calls it makes on the Context
Plain == <<>>

Bodies == {<<"Abort">>, <<"Next">>, <<"Abort", "Next">>, <<"Next", "Abort">>}

\* group.Handlers: no middleware, one, or two
Middleware == {<<>>} \cup {<<a>> : a \in Bodies} \cup {<<a, b>> : a, b \in Bodies}

(* RouterGroup.combineHandlers: the middleware, then the handlers of the route *)
combineHandlers(groupHandlers, hs) == Chain(groupHandlers \o hs)

\* the chains matched: middleware followed by handlers that make no call on the Context
Chains ==
    {chain \in {combineHandlers(mw, [k \in 1..m |-> Plain]) :
                    mw \in Middleware, m \in 1..MaxChain} : Len(chain.fns) <= MaxChain}

(* Engine.handleHTTPRequest, "c.handlers = handlers" and the call of c.Next() *)
Handle(chain) ==
    /\ cpc = "idle"
    /\ ctx' = [ctx EXCEPT !.handlers = chain, !.index = int8(@ + 1)]
    /\ cpc' = "loop"
    /\ UNCHANGED <<stack, ran, aborted>>
    /\ UNCHANGED <<engineVars, restVars>>

(* Context.Next, the loop: the handler at index is called, or Next returns to the *)
(* handler that called it, or to handleHTTPRequest                                 *)
NextLoop ==
    /\ cpc = "loop"
    /\ IF pending(ctx)
       THEN IF ctx.index < 0
            THEN cpc' = "panic" /\ UNCHANGED <<ctx, stack, ran, aborted>>
            ELSE /\ ran' = Append(ran, ctx.index)
                 /\ stack' = Append(stack, [h |-> ctx.index, at |-> 1])
                 /\ cpc' = "body"
                 /\ UNCHANGED <<ctx, aborted>>
       ELSE /\ cpc' = IF stack = <<>> THEN "done" ELSE "body"
            /\ UNCHANGED <<ctx, stack, ran, aborted>>
    /\ UNCHANGED <<engineVars, restVars>>

\* the handler that is running, and the call it makes next: "" when it returns
Running == stack[Len(stack)]

NextCall ==
    LET body == ctx.handlers.fns[Running.h + 1]
    IN  IF Running.at > Len(body) THEN "" ELSE body[Running.at]

(* Context.Abort *)
ContextAbort(cx) == [cx EXCEPT !.index = abortIndex]

(* the running handler calls c.Abort() *)
Abort ==
    /\ cpc = "body"
    /\ NextCall = "Abort"
    /\ ctx' = ContextAbort(ctx)
    /\ aborted' = Append(aborted, Running.h)
    /\ stack' = [stack EXCEPT ![Len(stack)].at = @ + 1]
    /\ UNCHANGED <<cpc, ran>>
    /\ UNCHANGED <<engineVars, restVars>>

(* the running handler calls c.Next(): "c.index++" and into the loop *)
CallNext ==
    /\ cpc = "body"
    /\ NextCall = "Next"
    /\ ctx' = [ctx EXCEPT !.index = int8(@ + 1)]
    /\ stack' = [stack EXCEPT ![Len(stack)].at = @ + 1]
    /\ cpc' = "loop"
    /\ UNCHANGED <<ran, aborted>>
    /\ UNCHANGED <<engineVars, restVars>>

(* the running handler returns to the loop that called it: "c.index++" *)
Return ==
    /\ cpc = "body"
    /\ NextCall = ""
    /\ ctx' = [ctx EXCEPT !.index = int8(@ + 1)]
    /\ stack' = SubSeq(stack, 1, Len(stack) - 1)
    /\ cpc' = "loop"
    /\ UNCHANGED <<ran, aborted>>
    /\ UNCHANGED <<engineVars, restVars>>

(* Engine.ServeHTTP, "c.reset()": the Context is made ready for the next request *)
Reset ==
    /\ cpc = "done"
    /\ ctx' = NoContext
    /\ cpc' = "idle"
    /\ stack' = <<>>
    /\ ran' = <<>>
    /\ aborted' = <<>>
    /\ UNCHANGED <<engineVars, restVars>>

NextContext ==
    \/ \E chain \in Chains : Handle(chain)
    \/ NextLoop
    \/ Abort
    \/ CallNext
    \/ Return
    \/ Reset

SpecContext == Init /\ [][NextContext]_vars

----------------------------------------------------------------------------
(* a request whose handlers call Context.RequestBody, each of them once or more *)

\* the bytes of a request body, at most
MaxBody == 3

\* the calls of RequestBody followed in one request
MaxBodyCalls == 3

\* the body of a request as it arrives: nothing of it is read
Stream(bytes) == [isNil |-> FALSE, underlying |-> TRUE, bytes |-> bytes]

(* ioutil.NopCloser(bytes.NewBuffer(body)) *)
NopCloser(body) == [isNil |-> FALSE, underlying |-> FALSE, bytes |-> body]

\* the tail of a sequence after its first k elements
Drop(seq, k) == SubSeq(seq, k + 1, Len(seq))

\* a read that leaves the body that was read in its place
RequestBodyKeepsBody(d, rq, k, ok) ==
    LET bytes == rq.Body.bytes
    IN  IF rq.Body.isNil
        THEN [data |-> d, request |-> rq, body |-> <<>>, err |-> FALSE, read |-> FALSE]
        ELSE IF ~d.isNil
        THEN [data |-> d, request |-> rq, body |-> d.body, err |-> FALSE, read |-> FALSE]
        ELSE IF ~ok
        THEN [data |-> d, request |-> [rq EXCEPT !.Body.bytes = Drop(bytes, k)],
              body |-> <<>>, err |-> TRUE, read |-> TRUE]
        ELSE [data |-> [isNil |-> FALSE, body |-> bytes],
              request |-> [rq EXCEPT !.Body.bytes = <<>>],
              body |-> bytes, err |-> FALSE, read |-> TRUE]

(* Context.RequestBody with c.data d and c.Request rq; ioutil.ReadAll returns what is *)
(* left of the body (ok), or fails after it has read k bytes of it.  What the call    *)
(* leaves and returns, and whether it has read the body                               *)
RequestBody(d, rq, k, ok) ==
    LET bytes == rq.Body.bytes
    IN  IF rq.Body.isNil
        THEN [data |-> d, request |-> rq, body |-> <<>>, err |-> FALSE, read |-> FALSE]
        ELSE IF ~d.isNil
        THEN [data |-> d, request |-> rq, body |-> d.body, err |-> FALSE, read |-> FALSE]
        ELSE IF ~ok
        THEN [data |-> d, request |-> [rq EXCEPT !.Body.bytes = Drop(bytes, k)],
              body |-> <<>>, err |-> TRUE, read |-> TRUE]
        ELSE [data |-> [isNil |-> FALSE, body |-> bytes],
              request |-> [rq EXCEPT !.Body = NopCloser(bytes)],
              body |-> bytes, err |-> FALSE, read |-> TRUE]

\* a request arrives: without a body, or with one of these
NewRequest ==
    /\ request.Method = ""
    /\ \/ request' = [Method |-> "GET", Body |-> NilBody]
       \/ \E bytes \in Strs(MaxBody) : request' = [Method |-> "POST", Body |-> Stream(bytes)]
    /\ UNCHANGED <<data, reads, returned>>
    /\ UNCHANGED <<engineVars, ctxVars, poolVars, groupVars>>

\* a handler of the request calls RequestBody (convertReqBody does, for a handler that
\* takes the body as its argument)
CallRequestBody ==
    /\ request.Method # ""
    /\ Len(returned) < MaxBodyCalls
    /\ \E ok \in BOOLEAN, k \in 0..Len(request.Body.bytes) :
          LET r == RequestBody(data, request, k, ok)
          IN  /\ data' = r.data
              /\ request' = r.request
              /\ reads' = IF r.read THEN Append(reads, [ok |-> ~r.err]) ELSE reads
              /\ returned' = Append(returned, [body |-> r.body, err |-> r.err])
    /\ UNCHANGED <<engineVars, ctxVars, poolVars, groupVars>>

\* the request is over: Context.reset for the next one, "c.data = nil"
EndRequest ==
    /\ request.Method # ""
    /\ request' = NoHTTPRequest
    /\ data' = NilMap
    /\ reads' = <<>>
    /\ returned' = <<>>
    /\ UNCHANGED <<engineVars, ctxVars, poolVars, groupVars>>

NextBody == NewRequest \/ CallRequestBody \/ EndRequest

SpecBody == Init /\ [][NextBody]_vars

----------------------------------------------------------------------------
(* Engine.ServeHTTP: every request is served by a goroutine of its own with a Context *)
(* of the Engine's pool                                                               *)

\* the ServeHTTP calls followed
MaxRequests == 3

\* the Contexts that the pool allocates
MaxContexts == 2

\* the route registered before the server runs: "/a" under GET
PoolCalls == {<<"GET", <<47, 97>>, HandlerFor("GET", <<47, 97>>)>>}

\* the requests: a path with a route and one without
PoolPaths == {<<47, 97>>, <<47>>}

StatusInternalServerError == 500

(* Engine.allocateContext, "&Context{engine: engine}": every field has its zero value *)
allocateContext == [handlers |-> NilChain, index |-> 0, fullPath |-> <<>>, data |-> NilMap,
                    Keys |-> {}, Request |-> 0, status |-> 0]

(* Context.reset *)
reset(cx) == [cx EXCEPT !.handlers = NilChain, !.fullPath = <<>>, !.index = -1, !.data = NilMap]

(* Context.Set, "c.Keys[key] = value" *)
Set(cx, key, value) ==
    [cx EXCEPT !.Keys = {kv \in @ : kv.key # key} \cup {[key |-> key, value |-> value]}]

AddRoutePool ==
    /\ ~serving
    /\ \E c \in PoolCalls : addRoute(c[1], c[2], c[3])

\* the goroutines inside ServeHTTP
InServe(g) == sv[g].pc # "idle"

(* ServeHTTP, "engine.pool.Get()": a Context of the pool, or a new one; sync.Pool may *)
(* call New although it holds a Context                                              *)
ServeGet(g, method, rPath) ==
    /\ serving
    /\ ~InServe(g)
    /\ served < MaxRequests
    /\ \E c \in pool \cup {0} :
          /\ IF c = 0
             THEN /\ Len(contexts) < MaxContexts
                  /\ contexts' = Append(contexts, allocateContext)
                  /\ pool' = pool
             ELSE /\ contexts' = contexts
                  /\ pool' = pool \ {c}
          /\ sv' = [sv EXCEPT ![g] = [pc |-> "got", c |-> IF c = 0 THEN Len(contexts') ELSE c,
                                      rid |-> served + 1, method |-> method, rPath |-> rPath,
                                      panicked |-> FALSE]]
    /\ served' = served + 1
    /\ UNCHANGED <<engineVars, ctxVars, groupVars, bodyVars>>

(* ServeHTTP, "c.Request = req" and "c.reset()" *)
ServeReset(g) ==
    /\ sv[g].pc = "got"
    /\ contexts' = [contexts EXCEPT ![sv[g].c] = reset([@ EXCEPT !.Request = sv[g].rid])]
    /\ sv' = [sv EXCEPT ![g].pc = "reset"]
    /\ UNCHANGED <<pool, served>>
    /\ UNCHANGED <<engineVars, ctxVars, groupVars, bodyVars>>

(* Engine.handleHTTPRequest up to the call of the first handler in Context.Next, or to *)
(* its end when no route is found: serveError with 404                                 *)
ServeDispatch(g) ==
    /\ sv[g].pc = "reset"
    /\ LET h == lookup(trees, sv[g].method, sv[g].rPath)
       IN  IF ~h.isNil
           THEN /\ contexts' = [contexts EXCEPT ![sv[g].c] =
                                   [@ EXCEPT !.handlers = h, !.index = int8(@ + 1)]]
                /\ sv' = [sv EXCEPT ![g].pc = "handler"]
           ELSE /\ contexts' = [contexts EXCEPT ![sv[g].c] = serveError(@, StatusNotFound)]
                /\ sv' = [sv EXCEPT ![g].pc = "put"]
    /\ UNCHANGED <<pool, served>>
    /\ UNCHANGED <<engineVars, ctxVars, groupVars, bodyVars>>

\* the running handler calls c.Set with a key of its request
HandlerSet(g) ==
    /\ sv[g].pc = "handler"
    /\ [key |-> "user", value |-> sv[g].rid] \notin contexts[sv[g].c].Keys
    /\ contexts' = [contexts EXCEPT ![sv[g].c] = Set(@, "user", sv[g].rid)]
    /\ UNCHANGED <<pool, sv, served>>
    /\ UNCHANGED <<engineVars, ctxVars, groupVars, bodyVars>>

\* the running handler calls c.RequestBody, and the body is read
HandlerBody(g) ==
    /\ sv[g].pc = "handler"
    /\ contexts[sv[g].c].data.isNil
    /\ contexts' = [contexts EXCEPT ![sv[g].c].data =
                       RequestBody(@, [Method |-> sv[g].method, Body |-> Stream(<<Slash>>)],
                                   0, TRUE).data]
    /\ UNCHANGED <<pool, sv, served>>
    /\ UNCHANGED <<engineVars, ctxVars, groupVars, bodyVars>>

\* the running handler panics (convertHandler's does when the request cannot be
\* converted): handleHTTPRequest and the rest of ServeHTTP are left, "engine.pool.Put(c)"
\* is not reached and the deferred function runs
HandlerPanic(g) ==
    /\ sv[g].pc = "handler"
    /\ sv' = [sv EXCEPT ![g].pc = "deferred", ![g].panicked = TRUE]
    /\ UNCHANGED <<pool, contexts, served>>
    /\ UNCHANGED <<engineVars, ctxVars, groupVars, bodyVars>>

(* Context.Next after a handler has returned: "c.index++", and the next handler is *)
(* called if there is one; handleHTTPRequest returns otherwise                     *)
HandlerReturn(g) ==
    /\ sv[g].pc = "handler"
    /\ LET cx == [contexts[sv[g].c] EXCEPT !.index = int8(@ + 1)]
       IN  /\ contexts' = [contexts EXCEPT ![sv[g].c] = cx]
           /\ sv' = [sv EXCEPT ![g].pc = IF pending(cx) THEN "handler" ELSE "put"]
    /\ UNCHANGED <<pool, served>>
    /\ UNCHANGED <<engineVars, ctxVars, groupVars, bodyVars>>

(* ServeHTTP, "engine.pool.Put(c)" *)
ServePut(g) ==
    /\ sv[g].pc = "put"
    /\ pool' = pool \cup {sv[g].c}
    /\ sv' = [sv EXCEPT ![g].pc = "deferred"]
    /\ UNCHANGED <<contexts, served>>
    /\ UNCHANGED <<engineVars, ctxVars, groupVars, bodyVars>>

\* a deferred function that does not call serveError
ServeDeferredSilent(g) ==
    /\ sv[g].pc = "deferred"
    /\ sv' = [sv EXCEPT ![g].pc = "idle"]
    /\ UNCHANGED <<pool, contexts, served>>
    /\ UNCHANGED <<engineVars, ctxVars, groupVars, bodyVars>>

(* ServeHTTP, the deferred function: recover, then serveError with 500 on the Context *)
(* of the call; ServeHTTP returns                                                     *)
ServeDeferred(g) ==
    /\ sv[g].pc = "deferred"
    /\ contexts' = [contexts EXCEPT ![sv[g].c] = serveError(@, StatusInternalServerError)]
    /\ sv' = [sv EXCEPT ![g].pc = "idle"]
    /\ UNCHANGED <<pool, served>>
    /\ UNCHANGED <<engineVars, ctxVars, groupVars, bodyVars>>

ServeHTTP ==
    \E g \in Goroutines :
        \/ \E method \in {"GET"}, rPath \in PoolPaths : ServeGet(g, method, rPath)
        \/ ServeReset(g)
        \/ ServeDispatch(g)
        \/ HandlerSet(g)
        \/ HandlerBody(g)
        \/ HandlerPanic(g)
        \/ HandlerReturn(g)
        \/ ServePut(g)
        \/ ServeDeferred(g)

NextPool == AddRoutePool \/ Walk \/ Run \/ ServeHTTP

SpecPool == Init /\ [][NextPool]_vars

----------------------------------------------------------------------------
(* router groups: Use appends middleware to the handler slice of a group, Group and *)
(* handle build a slice from it with combineHandlers.  A slice is a window          *)
(* [array, len, cap] on a backing array, and two slices may share one               *)

\* the handlers made
MaxHandlers == 5

\* the groups made, the Engine's own included
MaxGroups == 2

\* the routes registered
MaxRoutes == 1

\* the elements of a slice
elems(arrs, sl) == IF sl.array = 0 THEN <<>> ELSE SubSeq(arrs[sl.array], 1, sl.len)

\* a handler that no array holds yet
Fresh(arrs) ==
    LET held == UNION {{arrs[a][i] : i \in 1..Len(arrs[a])} : a \in 1..Len(arrs)} \cup {0}
    IN  1 + CHOOSE m \in held : \A x \in held : x <= m

(* make(HandlersChain, size): a new backing array of nil handlers *)
make(arrs, size) ==
    [arrays |-> Append(arrs, [i \in 1..size |-> 0]),
     slice  |-> [array |-> Len(arrs) + 1, len |-> size, cap |-> size]]

(* copy(dst[from:], src) *)
copy(arrs, dst, from, src) ==
    [arrs EXCEPT ![dst.array] =
        [i \in 1..Len(@) |-> IF i > from /\ i <= from + Len(src) /\ i <= dst.len
                              THEN src[i - from] ELSE @[i]]]

(* append(sl, x): in place when the backing array has room after the slice, in a new *)
(* array of twice the capacity otherwise                                             *)
append(arrs, sl, x) ==
    IF sl.len < sl.cap
    THEN [arrays |-> [arrs EXCEPT ![sl.array][sl.len + 1] = x],
          slice  |-> [sl EXCEPT !.len = @ + 1]]
    ELSE LET cap == IF sl.cap = 0 THEN 1 ELSE 2 * sl.cap
             old == elems(arrs, sl)
         IN  [arrays |-> Append(arrs, [i \in 1..cap |-> IF i <= sl.len THEN old[i]
                                                       ELSE IF i = sl.len + 1 THEN x ELSE 0]),
              slice  |-> [array |-> Len(arrs) + 1, len |-> sl.len + 1, cap |-> cap]]

(* append(sl, xs...), one element after the other *)
RECURSIVE appendAll(_, _, _)
appendAll(arrs, sl, xs) ==
    IF xs = <<>> THEN [arrays |-> arrs, slice |-> sl]
    ELSE LET r == append(arrs, sl, Head(xs))
         IN  appendAll(r.arrays, r.slice, Tail(xs))

\* handlers appended to the slice of the group, with no copy
mergedHandlersAppended(arrs, gh, hs) == appendAll(arrs, gh, hs)

(* RouterGroup.combineHandlers on slices: a new array of the final size, to which the *)
(* handlers of the group and then hs are copied                                       *)
mergedHandlers(arrs, gh, hs) ==
    LET m == make(arrs, gh.len + Len(hs))
    IN  [arrays |-> copy(copy(m.arrays, m.slice, 0, elems(arrs, gh)), m.slice, gh.len, hs),
         slice  |-> m.slice]

\* one or two new handlers
NewHandlers(arrs) == {<<Fresh(arrs)>>, <<Fresh(arrs), Fresh(arrs) + 1>>}

(* RouterGroup.Use *)
Use(g, middleware) ==
    /\ Fresh(arrays) + Len(middleware) - 1 <= MaxHandlers
    /\ LET r == appendAll(arrays, groups[g].Handlers, middleware)
       IN  /\ arrays' = r.arrays
           /\ groups' = [groups EXCEPT ![g].Handlers = r.slice, ![g].used = @ \o middleware]
    /\ UNCHANGED routes
    /\ UNCHANGED <<engineVars, ctxVars, poolVars, bodyVars>>

(* RouterGroup.Group *)
Group(g, hs) ==
    /\ Len(groups) < MaxGroups
    /\ Fresh(arrays) + Len(hs) - 1 <= MaxHandlers
    /\ LET r == mergedHandlers(arrays, groups[g].Handlers, hs)
       IN  /\ arrays' = r.arrays
           /\ groups' = Append(groups, [Handlers |-> r.slice, parent |-> g,
                                        derived |-> elems(arrays, groups[g].Handlers) \o hs,
                                        used |-> <<>>])
    /\ UNCHANGED routes
    /\ UNCHANGED <<engineVars, ctxVars, poolVars, bodyVars>>

(* RouterGroup.handle: the chain of the route is made by combineHandlers and given to *)
(* Engine.addRoute, which stores the slice at the node of the path                    *)
handle(g, handler) ==
    /\ Len(routes) < MaxRoutes
    /\ handler <= MaxHandlers
    /\ LET r == mergedHandlers(arrays, groups[g].Handlers, <<handler>>)
       IN  /\ arrays' = r.arrays
           /\ routes' = Append(routes, [group |-> g, handler |-> handler, chain |-> r.slice,
                                        middleware |-> elems(arrays, groups[g].Handlers)])
    /\ UNCHANGED groups
    /\ UNCHANGED <<engineVars, ctxVars, poolVars, bodyVars>>

NextGroup ==
    \/ \E g \in 1..Len(groups), middleware \in NewHandlers(arrays) : Use(g, middleware)
    \/ \E g \in 1..Len(groups), hs \in NewHandlers(arrays) \cup {<<>>} : Group(g, hs)
    \/ \E g \in 1..Len(groups) : handle(g, Fresh(arrays))

SpecGroup == Init /\ [][NextGroup]_vars

----------------------------------------------------------------------------
(* what the properties talk about *)

\* the paths looked up: every string of up to MaxLen + 1 bytes, "/α", "/β", the prefix
\* of both that ends inside the character, and an extension of "/α"
Queries == Strs(MaxLen + 1) \cup {Alpha, Beta, <<47, 206>>, Alpha \o <<Slash>>}

DupMsg == "handlers are already registered for path"

ArgMsgs == {"index out of range", "path must begin with '/'",
            "HTTP method can not be empty", "there must be at least one handler"}

\* no call is inside node.addRoute
Quiet == pc # "walk"

IsRegistered(method, p) == \E r \in registered : r.method = method /\ r.path = p

RECURSIVE AllNodes(_)
AllNodes(nd) == {nd} \cup UNION {AllNodes(nd.children[k]) : k \in 1..Len(nd.children)}

TreeNodes == UNION {AllNodes(trees[k].root) : k \in 1..Len(trees)}

NoRepeat(s) == \A a, b \in 1..Len(s) : a # b => s[a] # s[b]

----------------------------------------------------------------------------

\* C1: when no call is running, looking up a registered path under its method returns
\* exactly the chain that was handed to addRoute for it.
C1_RoundTrip ==
    Quiet => \A r \in registered : lookup(trees, r.method, r.path) = r.handlers

\* three routes of one tree, "/α" and "/β" among them, all found after a split
C1_Witness ==
    /\ pc = "idle"
    /\ Cardinality(registered) = 3
    /\ Len(trees) = 1
    /\ IsRegistered("GET", Alpha) /\ IsRegistered("GET", Beta)
    /\ lookup(trees, "GET", Alpha) = fakeHandler([method |-> "GET", route |-> Alpha, again |-> FALSE])
    /\ lookup(trees, "GET", Beta) = fakeHandler([method |-> "GET", route |-> Beta, again |-> FALSE])

\* C2: when no call is running, a path that was never registered under a method has no
\* handlers there: prefixes and extensions of registered paths and paths that match no
\* child all return nil.
C2_ExactMatchOnly ==
    Quiet => \A m \in Methods, q \in Queries :
                 ~IsRegistered(m, q) => lookup(trees, m, q) = NilChain

\* "/aa" is registered and found; its prefixes "/" and "/a", its extension "/aa/" and
\* "/a/" (no such child) are not
C2_Witness ==
    /\ pc = "idle"
    /\ IsRegistered("GET", <<47, 97, 97>>) /\ IsRegistered("GET", <<47, 97, 47>>)
    /\ ~IsRegistered("GET", <<47, 97>>) /\ ~IsRegistered("GET", <<47>>)
    /\ lookup(trees, "GET", <<47, 97>>) = NilChain
    /\ lookup(trees, "GET", <<47>>) = NilChain
    /\ lookup(trees, "GET", <<47, 97, 97, 47>>) = NilChain
    /\ lookup(trees, "GET", <<47, 97, 97>>) # NilChain

\* C3: every addRoute call with checked arguments terminates: a call that is inside the
\* walk loop has made fewer iterations than its path has bytes, because every iteration
\* that goes on to a child has taken at least one byte off the remaining path.
C3_WalkTerminates ==
    pc = "walk" => iter < Len(fullPath)

\* C4: a call for a path that already has handlers in the method's tree stays within
\* its iterations and ends in the duplicate panic, registering nothing.
C4_DuplicateRejected ==
    [][(pc = "walk" /\ IsRegistered(trees[tree].method, fullPath))
          => /\ iter < Len(fullPath)
             /\ pc' # "walk" => (pc' = "panicked" /\ result' = DupMsg /\ registered' = registered)]_vars

\* a duplicate was rejected in a tree that another route has split since
C4_Witness ==
    /\ pc = "panicked" /\ result = DupMsg
    /\ Cardinality(registered) = 2
    /\ Len(trees) = 1
    /\ Len(trees[1].root.children) = 2
    /\ trees[1].root.priority = 3

\* C10: when no call is running, no byte occurs twice in the indices of any node.
C10_DistinctFirstBytes ==
    Quiet => \A nd \in TreeNodes : NoRepeat(nd.indices)

\* a node with three children
C10_Witness ==
    pc = "idle" /\ \E nd \in TreeNodes : Len(nd.indices) = 3

\* the routes registered under a method, and every order they can be handed in
RoutesOf(method) == {r \in registered : r.method = method}

Orders(S) == {f \in [1..Cardinality(S) -> S] : \A a, b \in DOMAIN f : a # b => f[a] # f[b]}

\* the tree node.addRoute builds from the fresh root of Engine.addRoute when it is handed
\* the first k routes of f one after the other; kind "return" when every call returned
RECURSIVE Build(_, _)
Build(f, k) ==
    IF k = 0 THEN [root |-> [NewNode EXCEPT !.fullPath = <<Slash>>], kind |-> "return"]
    ELSE LET b == Build(f, k - 1)
         IN  IF b.kind # "return" THEN b
             ELSE nodeAddRoute(b.root, f[k].path, f[k].handlers)

\* C5: the routes registered in a tree can be registered on an empty tree in every
\* order: every call returns, and every path is then looked up with the same result as
\* in the tree at hand.
C5_OrderIndependent ==
    Quiet => \A k \in 1..Len(trees) : \A f \in Orders(RoutesOf(trees[k].method)) :
                 LET b == Build(f, Len(f))
                 IN  /\ b.kind = "return"
                     /\ \A q \in Queries : getValue(b.root, q) = getValue(trees[k].root, q)

\* the method a step registers under: the method of the call that is inside the walk
\* loop before or after the step or that returned in it, "" when there is none
CalledMethod ==
    IF pc' = "walk" THEN trees'[tree'].method
    ELSE IF pc = "walk" THEN trees[tree].method
    ELSE IF registered' # registered
    THEN (CHOOSE r \in registered' \ registered : TRUE).method
    ELSE ""

RootOf(ts, method) == IF get(ts, method) = 0 THEN <<>> ELSE <<ts[get(ts, method)].root>>

\* C6: a step of a call for one method leaves the tree of every other method as it is
\* (absent, or the same root with the same nodes), and so the lookup of every
\* registered path under another method.
C6_MethodIsolation ==
    [][\A m2 \in Methods :
          m2 # CalledMethod
             => /\ RootOf(trees', m2) = RootOf(trees, m2)
                /\ \A r \in registered' :
                       lookup(trees', m2, r.path) = lookup(trees, m2, r.path)]_vars

\* "/a" is registered under GET only and POST has a tree of two routes: "/a" is found
\* under GET and not under POST
C6_Witness ==
    /\ pc = "idle"
    /\ IsRegistered("GET", <<47, 97>>) /\ ~IsRegistered("POST", <<47, 97>>)
    /\ Cardinality(RoutesOf("POST")) = 2
    /\ lookup(trees, "GET", <<47, 97>>) # NilChain
    /\ lookup(trees, "POST", <<47, 97>>) = NilChain

\* C7: an iteration of getValue leaves every node of every tree as it is, and a request
\* that is done holds the chain its path has in the tree, whatever the other goroutine
\* did meanwhile; two goroutines done with the same request hold the same chain.
C7_LookupReadOnly ==
    [][(\E g \in Goroutines : req'[g] # req[g])
          => /\ trees' = trees
             /\ \A g \in Goroutines :
                    req'[g].state = "done"
                       => req'[g].handlers = lookup(trees, req'[g].method, req'[g].rPath)
             /\ \A g, g2 \in Goroutines :
                    (/\ req'[g].state = "done" /\ req'[g2].state = "done"
                     /\ req'[g].method = req'[g2].method /\ req'[g].rPath = req'[g2].rPath)
                       => req'[g].handlers = req'[g2].handlers]_vars

\* both goroutines walked two nodes down for the same path at the same time and both
\* found its chain
C7_Witness ==
    /\ req[1].state = "done" /\ req[2].state = "walk"
    /\ req[1].rPath = <<47, 97, 97>> /\ req[2].rPath = <<47, 97, 97>>
    /\ req[1].method = "GET" /\ req[2].method = "GET"
    /\ req[1].handlers # NilChain
    /\ Len(req[2].n) = 1

\* C8: when no call is running, getValue on the root of every tree, and on an empty
\* tree, returns a chain or nil for every path, the empty path among them: it indexes
\* neither the path nor the children out of range.
C8_LookupTotal ==
    Quiet => \A root \in {trees[k].root : k \in 1..Len(trees)} \cup {NewNode} :
                 \A q \in Queries : getValueWalk(root, q).kind = "return"

\* a tree three nodes deep where the empty path and a path that ends at a node
\* border have no handlers
C8_Witness ==
    /\ pc = "idle"
    /\ \E k \in 1..Len(trees) :
          LET root == trees[k].root
          IN  /\ \E a \in 1..Len(root.children) : Len(root.children[a].children) > 0
              /\ getValue(root, <<>>) = NilChain
              /\ getValue(root, root.path) = NilChain

BadArgs(method, p, h) == Len(p) = 0 \/ p[1] # Slash \/ method = "" \/ Len(h.fns) = 0

NoEmptyChain == \A nd \in TreeNodes : nd.handlers.isNil \/ Len(nd.handlers.fns) > 0

\* C9: a call whose path does not begin with '/', whose method is empty or whose chain
\* is empty panics and leaves the method table, every tree and the registered routes as
\* they are; no node holds an empty chain that is not nil.
C9_BadArgumentsPanic ==
    [][/\ \A c \in SomeCalls :
             (BadArgs(c[1], c[2], c[3]) /\ addRoute(c[1], c[2], c[3]))
                => (pc' = "panicked" /\ result' \in ArgMsgs
                    /\ trees' = trees /\ registered' = registered)
       /\ NoEmptyChain /\ NoEmptyChain']_vars

\* a call with a bad argument panicked on a table of two trees
C9_Witness ==
    /\ pc = "panicked" /\ result \in ArgMsgs
    /\ Len(trees) = 2
    /\ Cardinality(registered) = 3
    /\ TreeNodes # {}

\* C11: when no call is running, every node has as many indices as children, and the
\* k-th index is the first byte of the path of the k-th child.
C11_IndicesMatchChildren ==
    Quiet => \A nd \in TreeNodes :
                 /\ Len(nd.indices) = Len(nd.children)
                 /\ \A k \in 1..Len(nd.children) :
                        /\ Len(nd.children[k].path) > 0
                        /\ nd.indices[k] = nd.children[k].path[1]

\* the child that was appended last has passed the child before it: "/a", then "/α"
\* and "/β", whose common first byte was split off
C11_Witness ==
    /\ pc = "idle"
    /\ \E nd \in TreeNodes :
          /\ nd.indices = <<206, 97>>
          /\ nd.children[1].priority = 2 /\ nd.children[2].priority = 1
          /\ nd.children[1].indices = <<177, 178>>

\* C12: in every state, inside a call or not, every node of every tree has a path of
\* at least one byte, except a root without children that has not been given a path.
C12_SegmentsNonEmpty ==
    \A nd \in TreeNodes : Len(nd.path) > 0 \/ Len(nd.children) = 0

\* C13: when no call is running, after a return and after a duplicate panic alike, the
\* children of every node are in non-increasing order of priority.
C13_ChildrenByPriority ==
    Quiet => \A nd \in TreeNodes :
                 \A k \in 1..(Len(nd.children) - 1) :
                     nd.children[k].priority >= nd.children[k + 1].priority

\* a call for a registered path moved its child to the front before it panicked
C13_Witness ==
    /\ pc = "panicked" /\ result = DupMsg
    /\ Cardinality(registered) = 2
    /\ \E nd \in TreeNodes :
          /\ nd.indices = <<206, 97>>
          /\ nd.children[1].priority = 2 /\ nd.children[2].priority = 1

\* every node below nd with its position and the concatenation of the paths from the
\* root down to it, where pos and prefix are those of nd's parent
RECURSIVE Located(_, _, _)
Located(nd, pos, prefix) ==
    LET whole == prefix \o nd.path
    IN  {[pos |-> pos, whole |-> whole, node |-> nd]} \cup
        UNION {Located(nd.children[k], Append(pos, k), whole) : k \in 1..Len(nd.children)}

\* C14: when no call is running, a node holds handlers exactly if the paths from the
\* root down to it make up a path registered under the tree's method; its fullPath is
\* then that path and its handlers the chain registered for it, and no two nodes with
\* handlers have the same fullPath.
C14_HandlersAtRegisteredPaths ==
    Quiet => \A k \in 1..Len(trees) :
                 LET at == Located(trees[k].root, <<>>, <<>>)
                 IN  /\ \A e \in at :
                            /\ ~e.node.handlers.isNil <=> IsRegistered(trees[k].method, e.whole)
                            /\ ~e.node.handlers.isNil
                                  => /\ e.node.fullPath = e.whole
                                     /\ [method |-> trees[k].method, path |-> e.whole,
                                         handlers |-> e.node.handlers] \in registered
                     /\ \A e1, e2 \in at :
                            (/\ e1.pos # e2.pos
                             /\ ~e1.node.handlers.isNil /\ ~e2.node.handlers.isNil)
                               => e1.node.fullPath # e2.node.fullPath

\* three routes: a root with handlers for "/" above a node without handlers that two
\* routes share
C14_Witness ==
    /\ pc = "idle"
    /\ Cardinality(registered) = 3
    /\ Len(trees) = 1
    /\ \E e1, e2 \in Located(trees[1].root, <<>>, <<>>) :
          /\ e1.node.handlers.isNil /\ Len(e1.pos) = 1 /\ Len(e1.node.children) = 2
          /\ ~e2.node.handlers.isNil /\ e2.pos = <<>> /\ e2.node.fullPath = <<Slash>>

\* C15: the method table never holds a method twice; a step leaves every entry at its
\* place with its method, adds at most one entry, at the end and for a method that had
\* none, and get finds every method at the entry it was found at before.
C15_OneRootPerMethod ==
    [][/\ NoRepeat([k \in 1..Len(trees') |-> trees'[k].method])
       /\ Len(trees') \in {Len(trees), Len(trees) + 1}
       /\ \A k \in 1..Len(trees) :
              trees'[k].method = trees[k].method /\ get(trees', trees[k].method) = k
       /\ Len(trees') > Len(trees) => get(trees, trees'[Len(trees')].method) = 0
       /\ pc' = "walk" => get(trees', trees'[tree'].method) = tree']_vars

\* the second call for POST went to the root made by the first, after GET got its own
C15_Witness ==
    /\ pc = "idle"
    /\ Len(trees) = 2
    /\ trees[1].method = "POST" /\ trees[2].method = "GET"
    /\ trees[1].root.priority = 2 /\ trees[2].root.priority = 1
    /\ Cardinality(RoutesOf("POST")) = 2

C17_AbortStopsChain ==
    [][(aborted # <<>> /\ Len(ran') > Len(ran)) => ran'[Len(ran')] <= aborted[1]]_vars

\* the nodes of a tree, and of all trees
RECURSIVE CountNodes(_)
RECURSIVE CountEach(_)
CountEach(cs) == IF cs = <<>> THEN 0 ELSE CountNodes(Head(cs)) + CountEach(Tail(cs))

CountNodes(nd) == 1 + CountEach(nd.children)

CountAll(ts) == CountEach([k \in 1..Len(ts) |-> ts[k].root])

\* C18: every step of every call, for whatever path, leaves the lookup of every
\* registered path at the chain it returned before the step, and the trees with at
\* least as many nodes as they had.
C18_RoutesStable ==
    [][/\ \A r \in registered :
              lookup(trees, r.method, r.path) # NilChain
                 => lookup(trees', r.method, r.path) = lookup(trees, r.method, r.path)
       /\ CountAll(trees') >= CountAll(trees)]_vars

\* two routes are found as before after a third one split the node of one of them:
\* five nodes for three routes
C18_Witness ==
    /\ pc = "idle"
    /\ Cardinality(registered) = 3
    /\ CountAll(trees) = 5
    /\ \A r \in registered : lookup(trees, r.method, r.path) = r.handlers

\* the node the walk loop is at, and the length of the prefix it shares with the path
Current == nodeAt(trees[tree].root, n)

Common == longestCommonPrefix(path, Current.path)

\* C19: an iteration at a node whose path is longer than the common prefix i splits it:
\* the split leaves the node with the first i bytes of its path, no handlers, the byte
\* after them as its only index and one child, which has the rest of the path and the
\* indices, children, handlers and fullPath the node had, and its priority less one;
\* after the iteration the node of the tree has that path and that child below it.
C19_SplitStep ==
    [][(pc = "walk" /\ Common < Len(Current.path))
          => LET old    == Current
                 i      == Common
                 suffix == SubSeq(old.path, i + 1, Len(old.path))
                 moved  == [path |-> suffix, indices |-> old.indices,
                            children |-> old.children, handlers |-> old.handlers,
                            fullPath |-> old.fullPath, priority |-> old.priority - 1]
                 split  == splitEdge(old, i, path)
                 new    == nodeAt(trees'[tree].root, n)
             IN  /\ split.path = SubSeq(old.path, 1, i)
                 /\ split.handlers = NilChain
                 /\ split.indices = <<suffix[1]>>
                 /\ split.children = <<moved>>
                 /\ old.priority >= 1
                 /\ new.path = split.path
                 /\ \E k \in 1..Len(new.children) :
                        /\ new.indices[k] = suffix[1]
                        /\ [new.children[k] EXCEPT !.priority = 0]
                              = [moved EXCEPT !.priority = 0]
                        /\ new.children[k].priority \in {moved.priority, moved.priority + 1}]_vars

\* "/α" was split for "/β": the root kept the two bytes they share and, from before the
\* split, the fullPath of "/α", which went to the child with the handlers
C19_Witness ==
    /\ pc = "idle"
    /\ Cardinality(registered) = 2
    /\ Len(trees) = 1
    /\ LET root == trees[1].root
       IN  /\ root.path = <<47, 206>> /\ root.handlers.isNil /\ root.fullPath = Alpha
           /\ root.indices = <<177, 178>>
           /\ root.children[1] = [path |-> <<177>>, indices |-> <<>>, children |-> <<>>,
                                   handlers |-> fakeHandler([method |-> "GET", route |-> Alpha,
                                                             again |-> FALSE]),
                                   fullPath |-> Alpha, priority |-> root.priority - 1]

\* the sequence s without its k-th element
Without(s, k) == SubSeq(s, 1, k - 1) \o SubSeq(s, k + 1, Len(s))

\* C20: for every node of every tree and every child of it, incrementChildPrio gives
\* the child one more priority and a position that is not further back; the siblings
\* it passed have less priority than it has now and the sibling before it, if any, has
\* not; the other children are as they were and in their order, the indices are moved
\* in the same way, and the position returned is that of the child.
C20_IncrementChildPrio ==
    \A nd \in TreeNodes : \A pos \in 1..Len(nd.children) :
        LET r    == incrementChildPrio(nd, pos)
            cs   == r.node.children
            np   == r.newPos
            prio == nd.children[pos].priority + 1
        IN  /\ np \in 1..pos
            /\ cs[np] = [nd.children[pos] EXCEPT !.priority = prio]
            /\ Without(cs, np) = Without(nd.children, pos)
            /\ Len(r.node.indices) = Len(nd.indices)
            /\ Len(nd.indices) = Len(nd.children)
                  => /\ r.node.indices[np] = nd.indices[pos]
                     /\ Without(r.node.indices, np) = Without(nd.indices, pos)
            /\ \A j \in (np + 1)..pos : cs[j].priority < prio
            /\ np > 1 => cs[np - 1].priority >= prio
            /\ [r.node EXCEPT !.children = nd.children, !.indices = nd.indices] = nd

\* a call is on its way down: at the root its child was moved from the second place to
\* the first, and the walk went on at the position returned
C20_Witness ==
    /\ pc = "walk"
    /\ n = <<1>>
    /\ LET root == trees[tree].root
       IN  /\ root.indices = <<206, 97>>
           /\ root.children[1].priority = 2 /\ root.children[2].priority = 1
           /\ root.priority = 3

\* the nodes with handlers among nd and the nodes below it
RECURSIVE CountHandlers(_)
RECURSIVE CountHandlersEach(_)
CountHandlersEach(cs) ==
    IF cs = <<>> THEN 0 ELSE CountHandlers(Head(cs)) + CountHandlersEach(Tail(cs))

CountHandlers(nd) == (IF nd.handlers.isNil THEN 0 ELSE 1) + CountHandlersEach(nd.children)

RECURSIVE SumPriorities(_)
SumPriorities(cs) == IF cs = <<>> THEN 0 ELSE Head(cs).priority + SumPriorities(Tail(cs))

\* C21: when no call is running and none has ended in the duplicate panic, the
\* priority of every node is the number of nodes with handlers among it and the nodes
\* below it; the priority of a root is the number of routes registered under its
\* method, and no node has less priority than its children have together.
C21_PriorityCountsRoutes ==
    (Quiet /\ ~rejected)
       => /\ \A nd \in TreeNodes :
                /\ nd.priority = CountHandlers(nd)
                /\ nd.priority >= SumPriorities(nd.children)
          /\ \A k \in 1..Len(trees) :
                trees[k].root.priority = Cardinality(RoutesOf(trees[k].method))

\* three routes without a rejected call: the root has handlers and priority 3, the
\* node below it has none and priority 2 for the two routes below it
C21_Witness ==
    /\ pc = "idle" /\ ~rejected
    /\ Cardinality(registered) = 3
    /\ Len(trees) = 1
    /\ LET root == trees[1].root
       IN  /\ root.priority = 3 /\ ~root.handlers.isNil
           /\ Len(root.children) = 1
           /\ root.children[1].priority = 2 /\ root.children[1].handlers.isNil
           /\ Len(root.children[1].children) = 2

\* C22: when no call is running, every node without handlers has at least two
\* children.
C22_PathCompression ==
    Quiet => \A nd \in TreeNodes : nd.handlers.isNil => Len(nd.children) >= 2

\* "//" and "/a": the root is left with the byte they share and no handlers, above
\* the two nodes with the handlers
C22_Witness ==
    /\ pc = "idle"
    /\ Cardinality(registered) = 2
    /\ Len(trees) = 1
    /\ LET root == trees[1].root
       IN  /\ root.path = <<Slash>> /\ root.handlers.isNil
           /\ root.indices = <<47, 97>>
           /\ \A k \in 1..2 : ~root.children[k].handlers.isNil

\* the nodes of all trees without their priorities and the order of their children:
\* for every node the method, the paths from the root down to it, its own path,
\* handlers and fullPath and the first bytes of its children
Shape(ts) ==
    UNION {{[method |-> ts[k].method, whole |-> e.whole, path |-> e.node.path,
             handlers |-> e.node.handlers, fullPath |-> e.node.fullPath,
             indices |-> {e.node.indices[j] : j \in 1..Len(e.node.indices)}] :
               e \in Located(ts[k].root, <<>>, <<>>)} : k \in 1..Len(ts)}

\* a step of a call for a path that is registered under its method: its entry into
\* node.addRoute or an iteration of its walk loop
DupStep ==
    \/ pc = "walk" /\ IsRegistered(trees[tree].method, fullPath)
    \/ pc # "walk" /\ pc' = "walk" /\ IsRegistered(trees'[tree'].method, fullPath')

\* C23: every step of a call for a registered path, up to and with its panic, leaves
\* the number of nodes and every node's path, handlers, fullPath and children as they
\* are, their priorities and order apart, and so the result of every lookup.
C23_DuplicateChangesNothing ==
    [][DupStep
          => /\ CountAll(trees') = CountAll(trees)
             /\ Shape(trees') = Shape(trees)
             /\ \A k \in 1..Len(trees) : \A q \in Queries :
                    getValue(trees'[k].root, q) = getValue(trees[k].root, q)]_vars

\* "/β" was rejected after "/α" and "/β" were registered: its node is now the first
\* child, and both routes are found as before
C23_Witness ==
    /\ pc = "panicked" /\ result = DupMsg /\ rejected
    /\ Cardinality(registered) = 2
    /\ CountAll(trees) = 3
    /\ trees[1].root.indices = <<178, 177>>
    /\ \A r \in registered : lookup(trees, r.method, r.path) = r.handlers

\* C24: in a request in which no handler has called Abort, the handlers called so far
\* are the first handlers of the chain, each once and in the order of the chain, no
\* call indexes the chain out of range, and when Next has returned to
\* handleHTTPRequest every handler of the chain has been called.
C24_NextRunsChainOnce ==
    aborted = <<>>
       => /\ cpc # "panic"
          /\ \A k \in 1..Len(ran) : ran[k] = k - 1
          /\ cpc = "done" => Len(ran) = Len(ctx.handlers.fns)

----------------------------------------------------------------------------
\* the calls of RequestBody that returned a body and no error
Succeeded == {i \in 1..Len(returned) : ~returned[i].err}

\* the first of them
FirstSucceeded ==
    IF Succeeded = {} THEN 0 ELSE CHOOSE i \in Succeeded : \A j \in Succeeded : i <= j

\* the calls that return the same bytes as the first call that succeeded
SameBytes == \A i \in Succeeded : returned[i].body = returned[FirstSucceeded].body

----------------------------------------------------------------------------
(* C25: when ServeHTTP has reset the Context it took from the pool, the Context holds *)
(* nothing of an earlier request: handlers nil, index -1, fullPath empty, data nil,   *)
(* and in Keys no key that an earlier request has set                                 *)
C25_ContextStartsClean ==
    \A g \in Goroutines :
        sv[g].pc = "reset"
           => LET cx == contexts[sv[g].c]
              IN  /\ cx.handlers = NilChain
                  /\ cx.index = -1
                  /\ cx.fullPath = <<>>
                  /\ cx.data = NilMap
                  /\ \A kv \in cx.Keys : kv.value = sv[g].rid

(* C26: ServeHTTP accesses its Context only while it holds it: a goroutine that is    *)
(* inside ServeHTTP, and so has accesses ahead of it, works on a Context that is not *)
(* in the pool and that no other goroutine inside ServeHTTP works on                *)
C26_NoAccessAfterPut ==
    \A g \in Goroutines :
        InServe(g)
           => /\ sv[g].c \notin pool
              /\ \A h \in Goroutines \ {g} : InServe(h) => sv[h].c # sv[g].c

(* C27: a panic of a handler is recovered inside ServeHTTP: the deferred function runs *)
(* next, ServeHTTP returns from it with the status 500 set by serveError, and neither  *)
(* step changes the trees, so every request is dispatched as before                    *)
C27_PanicRecovered ==
    [][\A g \in Goroutines :
          /\ (sv[g].pc = "handler" /\ sv'[g].panicked)
                => /\ sv'[g].pc = "deferred"
                   /\ trees' = trees
          /\ (sv[g].pc = "deferred" /\ sv[g].panicked /\ sv'[g] # sv[g])
                => /\ sv'[g].pc = "idle"
                   /\ contexts'[sv[g].c].status = StatusInternalServerError
                   /\ trees' = trees
                   /\ \A q \in PoolPaths : lookup(trees', "GET", q) = lookup(trees, "GET", q)]_vars

\* a call whose handler panicked has returned with status 500, and the handler of a
\* later request for the route is running
C27_Witness ==
    \E g, h \in Goroutines :
        /\ sv[g].pc = "idle"
        /\ sv[g].panicked
        /\ contexts[sv[g].c].status = StatusInternalServerError
        /\ sv[h].rid > sv[g].rid
        /\ sv[h].pc = "handler"
        /\ ~contexts[sv[h].c].handlers.isNil

----------------------------------------------------------------------------
(* C28: the chain of a route is the middleware its group had when the route was     *)
(* registered, followed by the handler of the route, and stays so whatever Use adds *)
(* later to the group or to a parent; the middleware of a group made by Group is    *)
(* what the parent had then and the handlers given to Group, followed by what Use   *)
(* has added to the group itself                                                    *)
C28_ChainIsSnapshot ==
    /\ \A i \in 1..Len(routes) :
          elems(arrays, routes[i].chain) = Append(routes[i].middleware, routes[i].handler)
    /\ \A g \in 1..Len(groups) :
          elems(arrays, groups[g].Handlers) = groups[g].derived \o groups[g].used

\* a route of the Engine's group registered when it had three handlers in an array of
\* four, and a group derived from it then; Use has added a fourth to the Engine's group
\* since
C28_Witness ==
    /\ Len(groups) = 2
    /\ Len(routes) = 1
    /\ routes[1].group = 1
    /\ Len(routes[1].middleware) = 3
    /\ groups[1].Handlers.len = 4
    /\ groups[1].Handlers.cap = 4
    /\ Len(groups[2].derived) = 3
====
